---- MODULE Spec2Model ----
(***************************************************************************)
(* Model of setup_go.py: the Go installer for Linux.  One run of main() is *)
(* a walk of pc from "start" to "done"; the listing page, the command line *)
(* and the filesystem are the inputs.  Python strings are sequences of     *)
(* one-character strings, so that lstrip/rstrip/in/split act on characters *)
(* as they do in the source.                                               *)
(***************************************************************************)
EXTENDS Naturals, Integers, Sequences, FiniteSets, TLC

VARIABLES page, action, version, current_shell, reachable,
          dl_folder_exists, go_installed, archive, go_home_made, profile_lines,
          pc, exit_code, go_versions, go_links, download_url, log,
          run, installed_at_start, extract_count, extract_failed, removed

vars == <<page, action, version, current_shell, reachable,
          dl_folder_exists, go_installed, archive, go_home_made, profile_lines,
          pc, exit_code, go_versions, go_links, download_url, log,
          run, installed_at_start, extract_count, extract_failed, removed>>

env_vars == <<page, current_shell, reachable, dl_folder_exists>>

(* ---------------------------- bounds ---------------------------------- *)
MaxAnchors == 3
MaxRuns == 3

(* ---------------------------- strings --------------------------------- *)
go_dl_base_url == <<"h","t","t","p","s",":","/","/","g","o","l","a","n","g",
                    ".","o","r","g","/","d","l","/">>
go_local == <<"/","t","m","p","/">>
S_platform == <<"l","i","n","u","x","-","a","m","d","6","4">>
S_dl == <<"/","d","l","/">>
S_dlgo == <<"/","d","l","/","g","o">>
S_suffix == <<".","l","i","n","u","x","-","a","m","d","6","4",
              ".","t","a","r",".","g","z">>
S_zsh == <<"z","s","h">>
S_bash == <<"b","a","s","h">>
None == <<"<None>">>

V_1_15 == <<"1",".","1","5">>
V_1_15_2 == <<"1",".","1","5",".","2">>
V_1_14 == <<"1",".","1","4">>
V_9_9_9 == <<"9",".","9",".","9">>

PageVersions == {V_1_15, V_1_15_2, V_1_14}
ReleaseHref(v) == S_dlgo \o v \o S_suffix
WindowsHref == S_dlgo \o V_1_15_2 \o
               <<".","w","i","n","d","o","w","s","-","a","m","d","6","4",
                 ".","m","s","i">>

Anchor(h) == [has_href |-> TRUE, href |-> h]
BareAnchor == [has_href |-> FALSE, href |-> <<>>]
Anchors == {Anchor(ReleaseHref(v)) : v \in PageVersions}
             \cup {Anchor(WindowsHref), BareAnchor}
Pages == UNION {[1..n -> Anchors] : n \in 0..MaxAnchors}
ListingPage == <<Anchor(ReleaseHref(V_1_15)), Anchor(ReleaseHref(V_1_15_2)),
                 Anchor(ReleaseHref(V_1_14))>>

RequestedVersions == {None, V_1_15, V_1_14, V_9_9_9}
Shells == {<<"/","b","i","n","/","b","a","s","h">>,
           <<"/","b","i","n","/","z","s","h">>,
           <<"/","b","i","n","/","s","h">>}
ActionChoices == {"listgoversions", "listgolinks", "installgo"}

(* ------------------------ Python str operations ------------------------ *)
Chars(s) == {s[i] : i \in DOMAIN s}

\* needle in hay
Contains(needle, hay) ==
    \E i \in 0..(Len(hay) - Len(needle)) :
        \A j \in 1..Len(needle) : hay[i + j] = needle[j]

RECURSIVE StripLeft(_, _)
StripLeft(s, cs) ==
    IF s # <<>> /\ Head(s) \in cs THEN StripLeft(Tail(s), cs) ELSE s

RECURSIVE StripRight(_, _)
StripRight(s, cs) ==
    IF s # <<>> /\ s[Len(s)] \in cs
    THEN StripRight(SubSeq(s, 1, Len(s) - 1), cs) ELSE s

\* s.lstrip(arg): drops leading characters that occur in arg
lstrip(s, arg) == StripLeft(s, Chars(arg))
\* s.rstrip(arg): drops trailing characters that occur in arg
rstrip(s, arg) == StripRight(s, Chars(arg))

\* url.split('/')[-1]
RECURSIVE LastSegment(_)
LastSegment(s) ==
    IF s = <<>> \/ s[Len(s)] = "/" THEN <<>>
    ELSE Append(LastSegment(SubSeq(s, 1, Len(s) - 1)), s[Len(s)])

(* ------------------------- scraping functions -------------------------- *)
\* iteration of BeautifulSoup(response, parse_only=SoupStrainer('a')): the
\* anchors of the page in document order; pg[i].has_href is link.has_attr('href')
RECURSIVE VersionsLoop(_, _, _)
VersionsLoop(pg, i, acc) ==
    IF i > Len(pg) THEN acc
    ELSE IF pg[i].has_href /\ Contains(S_platform, pg[i].href)
         THEN VersionsLoop(pg, i + 1,
                  Append(acc, rstrip(lstrip(pg[i].href, S_dlgo), S_suffix)))
         ELSE VersionsLoop(pg, i + 1, acc)

get_go_versions(url, pg) == VersionsLoop(pg, 1, <<>>)

RECURSIVE LinksLoop(_, _, _, _)
LinksLoop(url, pg, i, acc) ==
    IF i > Len(pg) THEN acc
    ELSE IF pg[i].has_href /\ Contains(S_platform, pg[i].href)
         THEN LinksLoop(url, pg, i + 1,
                  Append(acc, url \o lstrip(pg[i].href, S_dl)))
         ELSE LinksLoop(url, pg, i + 1, acc)

RECURSIVE LinksLoopDedup(_, _, _, _)
LinksLoopDedup(url, pg, i, acc) ==
    IF i > Len(pg) THEN acc
    ELSE IF /\ pg[i].has_href /\ Contains(S_platform, pg[i].href)
            /\ \A k \in DOMAIN acc : acc[k] # url \o lstrip(pg[i].href, S_dl)
         THEN LinksLoopDedup(url, pg, i + 1,
                  Append(acc, url \o lstrip(pg[i].href, S_dl)))
         ELSE LinksLoopDedup(url, pg, i + 1, acc)

get_go_links_dedup(url, pg) == LinksLoopDedup(url, pg, 1, <<>>)

get_go_links(url, pg) == LinksLoop(url, pg, 1, <<>>)

\* go_linux_amd64_dl_link starts as the empty list and is overwritten by
\* every matching link
RECURSIVE LinkLoop(_, _, _, _, _)
LinkLoop(url, pg, ver, i, cur) ==
    IF i > Len(pg) THEN cur
    ELSE IF /\ pg[i].has_href /\ Contains(S_platform, pg[i].href)
            /\ Contains(ver, pg[i].href)
         THEN LinkLoop(url, pg, ver, i + 1, url \o lstrip(pg[i].href, S_dl))
         ELSE LinkLoop(url, pg, ver, i + 1, cur)

RECURSIVE LinkLoopFirst(_, _, _, _, _)
LinkLoopFirst(url, pg, ver, i, cur) ==
    IF i > Len(pg) THEN cur
    ELSE IF /\ pg[i].has_href /\ Contains(S_platform, pg[i].href)
            /\ Contains(ver, pg[i].href)
         THEN url \o lstrip(pg[i].href, S_dl)
         ELSE LinkLoopFirst(url, pg, ver, i + 1, cur)

get_go_link_first(url, pg, ver) == LinkLoopFirst(url, pg, ver, 1, <<>>)

get_go_link(url, pg, ver) == LinkLoop(url, pg, ver, 1, <<>>)

(* ------------------------------ the run -------------------------------- *)
Ev(kind, tag, a, b) == [ev |-> kind, tag |-> tag, a |-> a, b |-> b]
Say(tag, a, b) == Ev("print", tag, a, b)
Do(tag) == Ev("effect", tag, <<>>, <<>>)
Raise(tag) == Ev("raise", tag, <<>>, <<>>)

\* exit(n), exit('message') and an uncaught exception all end the run
Exit(code, entries) ==
    /\ log' = log \o entries
    /\ exit_code' = code
    /\ pc' = "done"

\* for i in range(0, len(xs)): print(label, xs[i])
ListedFromZero(tag, xs) == [i \in 1..Len(xs) |-> Say(tag, xs[i], <<>>)]

\* for i in range(1, len(xs)): print(label, xs[i])
Listed(tag, xs) == [i \in 1..(Len(xs) - 1) |-> Say(tag, xs[i + 1], <<>>)]

InitRun ==
    /\ pc = "start"
    /\ exit_code = -1
    /\ go_versions = <<>>
    /\ go_links = <<>>
    /\ download_url = None
    /\ log = <<>>
    /\ run = 1
    /\ installed_at_start = go_installed
    /\ extract_count = 0
    /\ extract_failed = FALSE
    /\ removed = FALSE
    /\ archive = "absent"
    /\ go_home_made = FALSE
    /\ profile_lines = [bashrc |-> 0, zshrc |-> 0]

Init ==
    /\ page \in Pages
    /\ action \in ActionChoices
    /\ version \in RequestedVersions
    /\ current_shell \in Shells
    /\ reachable \in BOOLEAN
    /\ dl_folder_exists \in BOOLEAN
    /\ go_installed \in BOOLEAN
    /\ InitRun

fs_vars == <<go_installed, archive, go_home_made, profile_lines,
             extract_count, extract_failed>>
arg_vars == <<action, version, run, installed_at_start, removed>>

\* main, action listgoversions
ListGoVersions ==
    /\ pc = "start" /\ action = "listgoversions"
    /\ IF reachable
       THEN /\ go_versions' = get_go_versions(go_dl_base_url, page)
            /\ Exit(0, <<Do("fetch"), Say("available_versions", <<>>, <<>>)>>
                       \o Listed("go_ver", go_versions'))
       ELSE /\ Exit(1, <<Do("fetch"), Raise("http.request")>>)
            /\ UNCHANGED go_versions
    /\ UNCHANGED <<env_vars, fs_vars, arg_vars, go_links, download_url>>

\* main, action listgolinks
ListGoLinks ==
    /\ pc = "start" /\ action = "listgolinks"
    /\ IF reachable
       THEN /\ go_links' = get_go_links(go_dl_base_url, page)
            /\ Exit(0, <<Do("fetch"), Say("available_links", <<>>, <<>>)>>
                       \o Listed("dl_link", go_links'))
       ELSE /\ Exit(1, <<Do("fetch"), Raise("http.request")>>)
            /\ UNCHANGED go_links
    /\ UNCHANGED <<env_vars, fs_vars, arg_vars, go_versions, download_url>>

\* the check left out: main goes on to the arguments whatever the folder
CheckDlFolderSkipped ==
    /\ pc = "start" /\ action = "installgo"
    /\ pc' = "args"
    /\ UNCHANGED <<log, exit_code>>
    /\ UNCHANGED <<env_vars, fs_vars, arg_vars, go_versions, go_links, download_url>>

\* main, action installgo: check_exists_dl_folder(go_local)
CheckDlFolder ==
    /\ pc = "start" /\ action = "installgo"
    /\ IF ~dl_folder_exists
       THEN Exit(1, <<Say("dl_folder_missing", go_local, <<>>)>>)
       ELSE /\ pc' = "args"
            /\ UNCHANGED <<log, exit_code>>
    /\ UNCHANGED <<env_vars, fs_vars, arg_vars, go_versions, go_links, download_url>>

\* main: if args.version is not None: get_go_link(...) else: exit(1)
ResolveVersion ==
    /\ pc = "args"
    /\ IF version # None
       THEN IF reachable
            THEN /\ download_url' = get_go_link(go_dl_base_url, page, version)
                 /\ log' = Append(log, Do("fetch"))
                 /\ pc' = "announce"
                 /\ UNCHANGED exit_code
            ELSE /\ Exit(1, <<Do("fetch"), Raise("http.request")>>)
                 /\ UNCHANGED download_url
       ELSE /\ Exit(1, <<Say("provide_version", <<>>, <<>>)>>)
            /\ UNCHANGED download_url
    /\ UNCHANGED <<env_vars, fs_vars, arg_vars, go_versions, go_links>>

\* the announcement left out
AnnounceSilent ==
    /\ pc = "announce"
    /\ pc' = "get_go"
    /\ UNCHANGED <<env_vars, fs_vars, arg_vars, exit_code, log,
                   go_versions, go_links, download_url>>

\* main: print(f'Selected Go version: ..., downloading Go package from: ...')
Announce ==
    /\ pc = "announce"
    /\ log' = Append(log, Say("selected", version, download_url))
    /\ pc' = "get_go"
    /\ UNCHANGED <<env_vars, fs_vars, arg_vars, exit_code,
                   go_versions, go_links, download_url>>

\* the existence check made before anything is downloaded
DownloadCheckedFirst ==
    /\ pc = "get_go"
    /\ IF go_installed
       THEN /\ Exit(1, <<Say("go_is_installed", <<>>, <<>>)>>)
            /\ UNCHANGED archive
       ELSE /\ download_url # <<>>
            /\ log' = log \o <<Do("requests.get"), Do("download"),
                          Say("download_complete",
                              go_local \o LastSegment(download_url), <<>>)>>
            /\ archive' = "complete"
            /\ pc' = "extract"
            /\ UNCHANGED exit_code
    /\ UNCHANGED <<env_vars, arg_vars, go_versions, go_links, download_url,
                   go_installed, go_home_made, profile_lines,
                   extract_count, extract_failed>>

\* get_go, step 1: requests.get(url, stream=True), then the chunks written to
\* location + filename.  requests raises on a url that is no string with a
\* scheme (the empty list get_go_link returns when nothing matched); the
\* connection may fail before the file is opened or while it is written.
Download ==
    /\ pc = "get_go"
    /\ IF download_url = <<>>
       THEN /\ Exit(1, <<Do("requests.get"), Raise("requests.get")>>)
            /\ UNCHANGED archive
       ELSE \E outcome \in {"refused", "broken", "complete"} :
              CASE outcome = "refused" ->
                     /\ Exit(1, <<Do("requests.get"), Raise("requests.get")>>)
                     /\ UNCHANGED archive
                [] outcome = "broken" ->
                     /\ Exit(1, <<Do("requests.get"), Do("partial_download"),
                                  Raise("iter_content")>>)
                     /\ archive' = "partial"
                [] outcome = "complete" ->
                     /\ log' = log \o <<Do("requests.get"), Do("download"),
                                 Say("download_complete",
                                     go_local \o LastSegment(download_url), <<>>)>>
                     /\ archive' = "complete"
                     /\ pc' = "extract"
                     /\ UNCHANGED exit_code
    /\ UNCHANGED <<env_vars, arg_vars, go_versions, go_links, download_url,
                   go_installed, go_home_made, profile_lines,
                   extract_count, extract_failed>>

\* os.system('sudo tar -C /usr/local -xzf ...'): tar may fail (its status is
\* not looked at), and then /usr/local/go is not created
Untar ==
    /\ \E ok \in BOOLEAN :
         /\ go_installed' = ok
         /\ extract_failed' = (extract_failed \/ ~ok)
    /\ extract_count' = extract_count + 1
    /\ log' = log \o <<Say("extracting", <<>>, <<>>), Do("extract")>>
    /\ pc' = "ensure_go_home"
    /\ UNCHANGED exit_code

\* get_go, step 2 without the existence check
ExtractUnchecked ==
    /\ pc = "extract"
    /\ Untar
    /\ UNCHANGED <<env_vars, arg_vars, go_versions, go_links, download_url,
                   archive, go_home_made, profile_lines>>

\* get_go, step 2: exit if /usr/local/go is present, else extract
Extract ==
    /\ pc = "extract"
    /\ IF go_installed
       THEN /\ Exit(1, <<Say("go_is_installed", <<>>, <<>>)>>)
            /\ UNCHANGED <<go_installed, extract_count, extract_failed>>
       ELSE Untar
    /\ UNCHANGED <<env_vars, arg_vars, go_versions, go_links, download_url,
                   archive, go_home_made, profile_lines>>

\* ensure_go_home(go_home, go_folders)
EnsureGoHome ==
    /\ pc = "ensure_go_home"
    /\ go_home_made' = TRUE
    /\ log' = Append(log, Do("mkdirs"))
    /\ pc' = "handle_os_environment"
    /\ UNCHANGED <<env_vars, arg_vars, exit_code, go_versions, go_links,
                   download_url, go_installed, archive, profile_lines,
                   extract_count, extract_failed>>

\* append_gopath_to_env(envfile)
append_gopath_to_env(rc) ==
    /\ profile_lines' = [profile_lines EXCEPT ![rc] = @ + 1]
    /\ Exit(0, <<Say("shell_config", <<>>, <<>>), Say("appending", <<>>, <<>>),
                 Do("append"), Say("global_config", <<>>, <<>>),
                 Say("verify", <<>>, <<>>), Say("completed", <<>>, <<>>)>>)

\* handle_os_environment(), then main's last print and its return
HandleOsEnvironment ==
    /\ pc = "handle_os_environment"
    /\ IF Contains(S_zsh, current_shell) THEN append_gopath_to_env("zshrc")
       ELSE IF Contains(S_bash, current_shell) THEN append_gopath_to_env("bashrc")
       ELSE /\ Exit(0, <<Say("shell_unknown", <<>>, <<>>),
                         Say("global_config", <<>>, <<>>),
                         Say("verify", <<>>, <<>>), Say("completed", <<>>, <<>>)>>)
            /\ UNCHANGED profile_lines
    /\ UNCHANGED <<env_vars, arg_vars, go_versions, go_links, download_url,
                   go_installed, archive, go_home_made,
                   extract_count, extract_failed>>

Install ==
    \/ CheckDlFolder
    \/ ResolveVersion
    \/ Announce
    \/ Download
    \/ Extract
    \/ EnsureGoHome
    \/ HandleOsEnvironment

Next ==
    \/ ListGoVersions
    \/ ListGoLinks
    \/ Install

Spec == Init /\ [][Next]_vars

(* --------------------------- repeated runs ----------------------------- *)
\* the program is started again: a new command line, the same machine
NewRun ==
    /\ pc = "done" /\ run < MaxRuns
    /\ run' = run + 1
    /\ action' = "installgo"
    /\ version' \in RequestedVersions
    /\ installed_at_start' = go_installed
    /\ pc' = "start"
    /\ exit_code' = -1
    /\ go_versions' = <<>>
    /\ go_links' = <<>>
    /\ download_url' = None
    /\ log' = <<>>
    /\ UNCHANGED <<env_vars, fs_vars, removed>>

\* between two runs somebody removes /usr/local/go
RemoveInstall ==
    /\ pc = "done" /\ run < MaxRuns /\ go_installed
    /\ go_installed' = FALSE
    /\ removed' = TRUE
    /\ UNCHANGED <<env_vars, action, version, run, installed_at_start,
                   archive, go_home_made, profile_lines, extract_count,
                   extract_failed, pc, exit_code, go_versions, go_links,
                   download_url, log>>

InitRuns ==
    /\ page = ListingPage
    /\ action = "installgo"
    /\ version \in RequestedVersions
    /\ current_shell \in Shells
    /\ reachable \in BOOLEAN
    /\ dl_folder_exists \in BOOLEAN
    /\ go_installed \in BOOLEAN
    /\ InitRun

NextRuns ==
    \/ Install
    \/ NewRun
    \/ RemoveInstall

SpecRuns == InitRuns /\ [][NextRuns]_vars

(* ------------------------------ claims --------------------------------- *)
HasEffect(tag) == \E i \in DOMAIN log : log[i] = Do(tag)
Printed(tag) == \E i \in DOMAIN log : log[i].ev = "print" /\ log[i].tag = tag
IsSideEffect(e) ==
    e.ev = "effect" /\ e.tag \in {"download", "extract", "mkdirs", "append"}
\* the side effects of the run so far, in the order they happened
EffectTags == LET es == SelectSeq(log, IsSideEffect)
              IN  [i \in DOMAIN es |-> es[i].tag]
AllEffects == <<"download", "extract", "mkdirs", "append">>
IsPrefix(s, t) == Len(s) <= Len(t) /\ \A i \in DOMAIN s : s[i] = t[i]
\* what the listing printed under a label, in order
PrintedArgs(tag) ==
    LET ls == SelectSeq(log, LAMBDA e : e.ev = "print" /\ e.tag = tag)
    IN  [i \in DOMAIN ls |-> ls[i].a]
S_go == <<"g", "o">>
\* indexes of the anchors that carry an href containing the platform substring
PlatformIdx == {i \in DOMAIN page :
                   page[i].has_href /\ Contains(S_platform, page[i].href)}
\* the k-th of them in document order
Nth(k) == CHOOSE i \in PlatformIdx :
              Cardinality({j \in PlatformIdx : j <= i}) = k
\* those that also contain the requested version
MatchIdx == {i \in PlatformIdx : Contains(version, page[i].href)}
MaxOf(S) == CHOOSE x \in S : \A y \in S : y <= x
MinOf(S) == CHOOSE x \in S : \A y \in S : x <= y
\* the download URL of the release v
ReleaseUrl(v) == go_dl_base_url \o S_go \o v \o S_suffix
Resolved == action = "installgo" /\ download_url # None

\* C1: when at least one link contains both 'linux-amd64' and the requested
\* version, the resolved URL is the one of the LAST such link of the page.
C1_LastMatchWins ==
    (Resolved /\ MatchIdx # {}) =>
        \A v \in PageVersions :
            page[MaxOf(MatchIdx)].href = ReleaseHref(v) => download_url = ReleaseUrl(v)

\* two different links match the request, and resolution has run
C1_Witness ==
    /\ Resolved /\ MatchIdx # {}
    /\ page[MinOf(MatchIdx)].href # page[MaxOf(MatchIdx)].href
    /\ page[MinOf(MatchIdx)].href = ReleaseHref(V_1_15)
    /\ download_url = ReleaseUrl(V_1_15_2)

\* C2: when no platform link contains the requested version, the caller
\* reports an error and ends the run with a non-zero status without ever
\* announcing or starting a download or any later step.
C2_NotFoundReported ==
    (action = "installgo" /\ download_url = <<>>) =>
        /\ ~Printed("selected")
        /\ ~HasEffect("requests.get")
        /\ EffectTags = <<>>
        /\ pc = "done" =>
              /\ exit_code # 0
              /\ \E i \in DOMAIN log : log[i].ev = "print"

\* C3: with no --version, or with the download directory missing, installgo
\* prints one message and exits with code 1 before any fetch of the listing
\* page, download, extraction, directory creation or profile append.
C3_PreconditionFailure ==
    (action = "installgo" /\ (version = None \/ ~dl_folder_exists)) =>
        /\ \A i \in DOMAIN log : log[i].ev = "print"
        /\ download_url = None
        /\ pc = "done" =>
              /\ exit_code = 1
              /\ Len(log) = 1
              /\ log[1].tag = (IF dl_folder_exists THEN "provide_version"
                               ELSE "dl_folder_missing")

\* the run without --version has ended
C3_Witness ==
    /\ action = "installgo" /\ version = None /\ dl_folder_exists
    /\ pc = "done" /\ Printed("provide_version")

C6_LiteralNormalization ==
    (action = "listgoversions" /\ pc = "done" /\ exit_code = 0) =>
        \A k \in 1..Cardinality(PlatformIdx) : \A v \in PageVersions :
            page[Nth(k)].href = ReleaseHref(v) =>
                (k \in DOMAIN go_versions /\ go_versions[k] = v)

\* C7: the listings print the entries 1..n-1 of the extracted sequence in
\* order (nothing for n <= 1), and resolution searches the whole sequence:
\* a version found only in the first platform link resolves to that link.
C7_SkipIsPresentationOnly ==
    /\ (action = "listgoversions" /\ pc = "done" /\ exit_code = 0) =>
          /\ Len(PrintedArgs("go_ver")) = (IF go_versions = <<>> THEN 0
                                           ELSE Len(go_versions) - 1)
          /\ \A i \in DOMAIN PrintedArgs("go_ver") :
                PrintedArgs("go_ver")[i] = go_versions[i + 1]
    /\ (action = "listgolinks" /\ pc = "done" /\ exit_code = 0) =>
          /\ Len(PrintedArgs("dl_link")) = (IF go_links = <<>> THEN 0
                                            ELSE Len(go_links) - 1)
          /\ \A i \in DOMAIN PrintedArgs("dl_link") :
                PrintedArgs("dl_link")[i] = go_links[i + 1]
    /\ (Resolved /\ MatchIdx # {} /\ MatchIdx = {Nth(1)}) =>
          \A v \in PageVersions :
              page[Nth(1)].href = ReleaseHref(v) => download_url = ReleaseUrl(v)

\* the request matches the first of several platform links and no other
C7_Witness ==
    /\ Resolved /\ Cardinality(PlatformIdx) >= 2 /\ MatchIdx = {Nth(1)}
    /\ download_url = ReleaseUrl(V_1_14)
    /\ pc = "done"

\* C8: the line announcing the selected version and the resolved URL is
\* printed before the download is attempted; no download is attempted in a
\* run that did not print it, and a run with a version, a download folder
\* and a reachable listing page prints it.
C8_AnnouncedBeforeDownload ==
    action = "installgo" =>
        /\ \A i \in DOMAIN log :
              log[i] \in {Do("requests.get"), Do("download"), Do("partial_download")}
                  => \E j \in 1..(i - 1) : log[j] = Say("selected", version, download_url)
        /\ pc \in {"get_go", "extract", "ensure_go_home", "handle_os_environment"}
              => Printed("selected")
        /\ (pc = "done" /\ version # None /\ reachable /\ dl_folder_exists)
              => Printed("selected")

\* the archive was downloaded after the announcement
C8_Witness ==
    /\ action = "installgo" /\ HasEffect("download") /\ Printed("selected")
    /\ version = V_1_15 /\ download_url # <<>>

\* C9: the extracted sequence holds one entry per anchor whose href contains
\* 'linux-amd64', in document order, duplicates kept, and is empty when
\* there is none.
C9_ExtractKeepsPlatformAnchors ==
    /\ (action = "listgolinks" /\ pc = "done" /\ exit_code = 0) =>
          /\ Len(go_links) = Cardinality(PlatformIdx)
          /\ \A k \in DOMAIN go_links : \A v \in PageVersions :
                page[Nth(k)].href = ReleaseHref(v) => go_links[k] = ReleaseUrl(v)
    /\ (action = "listgoversions" /\ pc = "done" /\ exit_code = 0) =>
          Len(go_versions) = Cardinality(PlatformIdx)

\* a page with the same platform link twice and another anchor between
C9_Witness ==
    /\ action = "listgolinks" /\ pc = "done" /\ exit_code = 0
    /\ Len(page) = 3 /\ PlatformIdx = {1, 3}
    /\ page[1] = page[3]
    /\ Len(go_links) = 2 /\ go_links[1] = go_links[2]

\* C10: as long as every extraction started has created /usr/local/go and
\* nobody has removed it, the archive was extracted at most once and the
\* export line appended at most once over all runs, and a run after the
\* extracting one neither extracts nor appends.
C10_AtMostOnce ==
    (~extract_failed /\ ~removed) =>
        /\ extract_count <= 1
        /\ profile_lines.bashrc + profile_lines.zshrc <= 1
        /\ (extract_count = 1 /\ ~HasEffect("extract")) =>
              /\ ~HasEffect("append")
              /\ pc \notin {"ensure_go_home", "handle_os_environment"}

\* a later run has stopped at the existence check after a complete install
C10_Witness ==
    /\ ~extract_failed /\ ~removed /\ run >= 2
    /\ extract_count = 1 /\ installed_at_start
    /\ profile_lines.bashrc + profile_lines.zshrc = 1
    /\ pc = "done" /\ Printed("go_is_installed")

====
